---- MODULE Spec2Model ----
\* Model of lib/modules/kss-parser.js: the promise pipeline of parseKssSections
\* (processBlock / processFile fan-out, Q.all joins) and the KssNodeSorter
\* (weight map, likeKssNode comparator, convertKssReferenceString2Number).
\*
\* JavaScript strings are modelled as sequences of one-character strings so that
\* toLowerCase, the regular expressions, split/join and the string comparison
\* operators are computed character by character, as the engine does.
EXTENDS Integers, Sequences, FiniteSets, TLC

\* ------------------------------------------------------------------ bounds
\* Largest merged collection handed to a KssNodeSorter in SorterSpec.
MaxSections == 3
\* Files per parseKssSections call, and raw blocks in all files together, in Spec.
MaxFiles == 2
MaxBlocks == 3

\* ------------------------------------------------------------------ strings
Min(a, b) == IF a < b THEN a ELSE b
Max(a, b) == IF a > b THEN a ELSE b
Range(s) == {s[i] : i \in DOMAIN s}

DigitChars == <<"0", "1", "2", "3", "4", "5", "6", "7", "8", "9">>
UpperChars == <<"A", "B", "C", "D", "E", "F", "G", "H", "I", "J", "K", "L", "M",
                "N", "O", "P", "Q", "R", "S", "T", "U", "V", "W", "X", "Y", "Z">>
LowerChars == <<"a", "b", "c", "d", "e", "f", "g", "h", "i", "j", "k", "l", "m",
                "n", "o", "p", "q", "r", "s", "t", "u", "v", "w", "x", "y", "z">>
\* The characters that occur in references, in UTF-16 code unit order
\* (space 32, '-' 45, '.' 46, digits 48..57, A..Z 65..90, a..z 97..122).
CodeOrder == <<" ", "-", ".">> \o DigitChars \o UpperChars \o LowerChars
CharCode == [c \in Range(CodeOrder) |-> CHOOSE i \in DOMAIN CodeOrder : CodeOrder[i] = c]

IsDigit(c) == c \in Range(DigitChars)
IsSpace(c) == c = " "
IsUpper(c) == c \in Range(UpperChars)

\* String.prototype.toLowerCase
LowerChar(c) ==
  IF IsUpper(c) THEN LowerChars[CHOOSE i \in DOMAIN UpperChars : UpperChars[i] = c] ELSE c
toLowerCase(s) == [i \in DOMAIN s |-> LowerChar(s[i])]

\* JavaScript's  x > y  on two strings: code unit order, a proper prefix is smaller.
StrGreater(x, y) ==
  LET diff == {i \in 1..Min(Len(x), Len(y)) : x[i] # y[i]}
  IN  IF diff = {} THEN Len(x) > Len(y)
      ELSE LET k == CHOOSE i \in diff : \A j \in diff : i <= j
           IN  CharCode[x[k]] > CharCode[y[k]]

\* /^\d+$/
AllDigits(s) == Len(s) > 0 /\ \A i \in DOMAIN s : IsDigit(s[i])

\* ToNumber of a string of decimal digits (the operands of refsA[i] - refsB[i]).
RECURSIVE ToNumber(_)
ToNumber(s) ==
  IF s = <<>> THEN 0
  ELSE 10 * ToNumber(SubSeq(s, 1, Len(s) - 1))
       + ((CHOOSE i \in DOMAIN DigitChars : DigitChars[i] = s[Len(s)]) - 1)

\* Number.prototype.toString of a non-negative integer.
RECURSIVE NumberToString(_)
NumberToString(n) ==
  IF n < 10 THEN <<DigitChars[n + 1]>>
  ELSE NumberToString(n \div 10) \o <<DigitChars[(n % 10) + 1]>>

\* Array.prototype.join('.') of an array of strings.
RECURSIVE JoinDot(_)
JoinDot(chunks) ==
  IF chunks = <<>> THEN <<>>
  ELSE IF Len(chunks) = 1 THEN chunks[1]
  ELSE chunks[1] \o <<".">> \o JoinDot(Tail(chunks))

\* autoIncrement.join('.'): an array of numbers joined with dots.
JoinNumbers(nums) == JoinDot([i \in DOMAIN nums |-> NumberToString(nums[i])])

\* s.split(/(?:\.|\s\-\s)/), scanning from position i with the chunk cur open.
RECURSIVE SplitChunksFrom(_, _, _, _)
SplitChunksFrom(s, i, cur, acc) ==
  IF i > Len(s) THEN Append(acc, cur)
  ELSE IF s[i] = "." THEN SplitChunksFrom(s, i + 1, <<>>, Append(acc, cur))
  ELSE IF IsSpace(s[i]) /\ i + 2 <= Len(s) /\ s[i + 1] = "-" /\ IsSpace(s[i + 2])
       THEN SplitChunksFrom(s, i + 3, <<>>, Append(acc, cur))
  ELSE SplitChunksFrom(s, i + 1, Append(cur, s[i]), acc)
SplitChunks(s) == SplitChunksFrom(s, 1, <<>>, <<>>)

\* First position at or after i that holds no whitespace (Len(s) + 1 if none).
RECURSIVE SkipSpaces(_, _)
SkipSpaces(s, i) == IF i <= Len(s) /\ IsSpace(s[i]) THEN SkipSpaces(s, i + 1) ELSE i

\* s.replace(/\s+\-\s+/g, '.')
RECURSIVE ReplaceDashesFrom(_, _, _)
ReplaceDashesFrom(s, i, acc) ==
  IF i > Len(s) THEN acc
  ELSE LET j == SkipSpaces(s, i)
       IN  IF IsSpace(s[i]) /\ j + 1 <= Len(s) /\ s[j] = "-" /\ IsSpace(s[j + 1])
           THEN ReplaceDashesFrom(s, SkipSpaces(s, j + 1), Append(acc, "."))
           ELSE ReplaceDashesFrom(s, i + 1, Append(acc, s[i]))
ReplaceDashes(s) == ReplaceDashesFrom(s, 1, <<>>)

\* s.split('.')
RECURSIVE SplitDotFrom(_, _, _, _)
SplitDotFrom(s, i, cur, acc) ==
  IF i > Len(s) THEN Append(acc, cur)
  ELSE IF s[i] = "." THEN SplitDotFrom(s, i + 1, <<>>, Append(acc, cur))
  ELSE SplitDotFrom(s, i + 1, Append(cur, s[i]), acc)
SplitDot(s) == SplitDotFrom(s, 1, <<>>, <<>>)

\* s.split('.', limit)
SplitDotLimit(s, limit) ==
  LET all == SplitDot(s) IN SubSeq(all, 1, Min(limit, Len(all)))

\* /^[\d\.\-]+$/.test(s)
IsNumericReference(s) ==
  Len(s) > 0 /\ \A i \in DOMAIN s : IsDigit(s[i]) \/ s[i] = "." \/ s[i] = "-"

\* ------------------------------------------------------------------ sections
\* A section object as built by jsonSections and tagged by processFile. header
\* stands for the rendered header text: <<file, block, k>> names the k-th section
\* the parser produced for that block, so distinct sections have distinct headers.
\* stringReference is <<>> while the property is absent, <<text>> once set.
Section(header, reference, weight, file) ==
  [header |-> header, reference |-> reference, weight |-> weight, file |-> file,
   stringReference |-> <<>>]

\* Objects live in a heap (object identity = index); arrays hold identities.
\* Variant: _.clone(sections), a new array that shares the section objects.
CloneShallow(h, ids) == [heap |-> h, array |-> ids]
\* _.clone(sections, true): a new array of new objects with equal fields.
CloneDeep(h, ids) ==
  [heap  |-> h \o [i \in DOMAIN ids |-> h[ids[i]]],
   array |-> [i \in DOMAIN ids |-> Len(h) + i]]

\* section.reference.toLowerCase().replace(/\s+\-\s+/g, '.')
NormalizedReference(reference) == ReplaceDashes(toLowerCase(reference))

\* _.object(_.map(sections, ...)): one entry per distinct key, the last pair with
\* a key wins. The map is the set of its <<key, weight>> entries.
initWeightMap(h, ids) ==
  {<<NormalizedReference(h[ids[i]].reference), h[ids[i]].weight>> : i \in
     {i \in DOMAIN ids : \A j \in DOMAIN ids :
        NormalizedReference(h[ids[j]].reference) = NormalizedReference(h[ids[i]].reference)
          => j <= i}}

\* _this.weightMap[reference] || 0
Lookup(weightMap, key) ==
  IF \E e \in weightMap : e[1] = key
  THEN (CHOOSE e \in weightMap : e[1] = key)[2]
  ELSE 0

\* Variant: the weight of the whole reference, whatever the chunk index.
getWeightWhole(weightMap, reference, index) ==
  Lookup(weightMap, NormalizedReference(reference))
\* getWeight(reference, index); index counts chunks from 0 as in the source.
getWeight(weightMap, reference, index) ==
  Lookup(weightMap, JoinDot(SplitDotLimit(NormalizedReference(reference), index + 1)))

\* refsA[i] is truthy: the chunk exists and is not the empty string.
Truthy(refs, i) == i + 1 <= Len(refs) /\ refs[i + 1] # <<>>

\* The loop of likeKssNode from chunk index i (0-based) on; the value returned.
RECURSIVE likeKssNodeFrom(_, _, _, _)
likeKssNodeFrom(weightMap, a, b, i) ==
  LET refsA == SplitChunks(toLowerCase(a.reference))
      refsB == SplitChunks(toLowerCase(b.reference))
      l == Max(Len(refsA), Len(refsB))
  IN  IF i >= l THEN 0
      ELSE IF Truthy(refsA, i) /\ Truthy(refsB, i)
      THEN IF refsA[i + 1] # refsB[i + 1]
           THEN LET weightA == getWeight(weightMap, a.reference, i)
                    weightB == getWeight(weightMap, b.reference, i)
                IN  IF weightA # weightB THEN weightA - weightB
                    ELSE IF AllDigits(refsA[i + 1]) /\ AllDigits(refsB[i + 1])
                    THEN ToNumber(refsA[i + 1]) - ToNumber(refsB[i + 1])
                    ELSE IF StrGreater(refsA[i + 1], refsB[i + 1]) THEN 1 ELSE -1
           ELSE likeKssNodeFrom(weightMap, a, b, i + 1)
      ELSE IF Truthy(refsA, i) THEN 1 ELSE -1

\* Variant: the comparator with every weight taken as 0.
likeKssNodeAlphabetical(weightMap, a, b) == likeKssNodeFrom({}, a, b, 0)
likeKssNode(weightMap, a, b) == likeKssNodeFrom(weightMap, a, b, 0)

\* Array.prototype.sort(comparefn) as the engine runs it on arrays this short:
\* insertion sort, an element moves left past every element that compares
\* greater (comparefn(tmp, element) > 0), so equal elements keep their order.
RECURSIVE InsertAt(_, _, _, _, _)
InsertAt(h, weightMap, arr, element, j) ==
  IF j >= 1 /\ likeKssNode(weightMap, h[arr[j]], h[element]) > 0
  THEN InsertAt(h, weightMap, arr, element, j - 1)
  ELSE SubSeq(arr, 1, j) \o <<element>> \o SubSeq(arr, j + 1, Len(arr))

RECURSIVE ArraySortFrom(_, _, _, _)
ArraySortFrom(h, weightMap, arr, i) ==
  IF i > Len(arr) THEN arr
  ELSE ArraySortFrom(h, weightMap,
         InsertAt(h, weightMap, SubSeq(arr, 1, i - 1), arr[i], i - 1)
           \o SubSeq(arr, i + 1, Len(arr)),
         i + 1)
ArraySort(h, weightMap, arr) == ArraySortFrom(h, weightMap, arr, 2)

\* ------------------------------------------------------------------ errors
NoError == [kind |-> "none", reference |-> <<>>, headers |-> <<>>]
\* err handed to kss.parse's callback for block b of file f
ParseError(f, b) == [kind |-> "parse", reference |-> <<>>, headers |-> <<<<f, b, 0>>>>]
\* exception thrown by kssSplitter.getBlocks on file f
SplitterError(f) == [kind |-> "splitter", reference |-> <<>>, headers |-> <<<<f, 0, 0>>>>]
\* PluginError 'Two sections defined with same reference <previousSection.reference>:
\* "<previousSection.header>" and "<section.header>"'
CollisionError(previousSection, section) ==
  [kind |-> "collision", reference |-> previousSection.reference,
   headers |-> <<previousSection.header, section.header>>]

\* ------------------------------------------------------------------ numbering
\* The for loop at "Find the index where the refs differ": the number of leading
\* chunks previousRef and ref share.
RECURSIVE IncrementIndexFrom(_, _, _)
IncrementIndexFrom(previousRef, ref, index) ==
  IF index >= Len(previousRef) THEN index
  ELSE IF index >= Len(ref) \/ previousRef[index + 1] # ref[index + 1] THEN index
  ELSE IncrementIndexFrom(previousRef, ref, index + 1)
\* Variant: a reference that repeats or extends the previous one re-opens the
\* previous reference's last counter instead of an unopened depth.
IncrementIndexLenient(previousRef, ref) ==
  Max(0, Min(IncrementIndexFrom(previousRef, ref, 0), Len(previousRef) - 1))
IncrementIndex(previousRef, ref) == IncrementIndexFrom(previousRef, ref, 0)

\* "Add parts to the autoincrement to ensure it is the same length as the new ref."
ExtendWithOnes(autoIncrement, length) ==
  autoIncrement \o [i \in 1..(length - Len(autoIncrement)) |-> 1]

\* Variant: the rewrite without the /^[\d\.\-]+$/ test.
RewriteAlways(h, id, numeric) ==
  [h EXCEPT ![id].stringReference = <<h[id].reference>>, ![id].reference = numeric]
\* if (!(/^[\d\.\-]+$/.test(section.reference))) { section.stringReference =
\* section.reference; section.reference = autoIncrement.join('.'); }
RewriteReference(h, id, numeric) ==
  IF ~IsNumericReference(h[id].reference)
  THEN [h EXCEPT ![id].stringReference = <<h[id].reference>>, ![id].reference = numeric]
  ELSE h

\* The loop state of convertKssReferenceString2Number before the first section.
\* previousSection = 0 stands for the initial {}. paths records autoIncrement as
\* it stood after each section was processed.
ConvertStart(h) ==
  [heap |-> h, previousRef |-> <<>>, previousSection |-> 0, autoIncrement |-> <<0>>,
   error |-> NoError, paths |-> <<>>]

\* Variant: one iteration without autoIncrement.slice(0, incrementIndex + 1), so
\* the counters below the incremented depth are kept.
ConvertStepKeepDeeper(st, id) ==
  LET section == st.heap[id]
      ref == SplitDot(ReplaceDashes(section.reference))
      incrementIndex == IncrementIndex(st.previousRef, ref)
  IN  IF incrementIndex < Len(st.autoIncrement)
      THEN LET autoIncrement ==
                 ExtendWithOnes([st.autoIncrement EXCEPT ![incrementIndex + 1] = @ + 1],
                                Len(ref))
           IN  [heap |-> RewriteReference(st.heap, id, JoinNumbers(autoIncrement)),
                previousRef |-> ref, previousSection |-> id,
                autoIncrement |-> autoIncrement, error |-> NoError,
                paths |-> Append(st.paths, autoIncrement)]
      ELSE [st EXCEPT !.error = CollisionError(st.heap[st.previousSection], section)]
\* One iteration of the loop, on the section with identity id.
ConvertStep(st, id) ==
  LET section == st.heap[id]
      ref == SplitDot(ReplaceDashes(section.reference))
      incrementIndex == IncrementIndex(st.previousRef, ref)
  IN  IF (JoinDot(st.previousRef) # JoinDot(ref)) \/ TRUE
      THEN IF incrementIndex < Len(st.autoIncrement)
           THEN LET incremented ==
                      SubSeq([st.autoIncrement EXCEPT ![incrementIndex + 1] = @ + 1],
                             1, incrementIndex + 1)
                    autoIncrement == ExtendWithOnes(incremented, Len(ref))
                IN  [heap |-> RewriteReference(st.heap, id, JoinNumbers(autoIncrement)),
                     previousRef |-> ref, previousSection |-> id,
                     autoIncrement |-> autoIncrement, error |-> NoError,
                     paths |-> Append(st.paths, autoIncrement)]
           ELSE [st EXCEPT !.error =
                   CollisionError(st.heap[st.previousSection], section)]
      ELSE st

\* The whole loop: stops at the first throw, keeping the rewrites already made.
RECURSIVE ConvertFrom(_, _, _)
ConvertFrom(st, arr, i) ==
  IF i > Len(arr) \/ st.error # NoError THEN st
  ELSE ConvertFrom(ConvertStep(st, arr[i]), arr, i + 1)
convertKssReferenceString2Number(h, arr) == ConvertFrom(ConvertStart(h), arr, 1)

\* ------------------------------------------------------------------ inputs
Dash == <<" ", "-", " ">>
RefForms == <<"F", "o", "r", "m", "s">>
RefFormsLower == <<"f", "o", "r", "m", "s">>
RefFormsButtons == RefForms \o Dash \o <<"B", "u", "t", "t", "o", "n", "s">>
RefFormsInputs == RefForms \o Dash \o <<"I", "n", "p", "u", "t", "s">>
RefBase == <<"B", "a", "s", "e">>
RefBaseColors == RefBase \o Dash \o <<"C", "o", "l", "o", "r", "s">>
RefBaseTypography == RefBase \o Dash \o <<"T", "y", "p", "o", "g", "r", "a", "p", "h", "y">>
RefBaseColorsRed == RefBaseColors \o Dash \o <<"R", "e", "d">>
RefAB == <<"A", ".", "B">>
RefAC == <<"A", ".", "C">>
RefDB == <<"D", ".", "B">>
RefFormsA == RefForms \o Dash \o <<"A">>
RefFormsLowerB == RefFormsLower \o Dash \o <<"B">>
RefADotDotB == <<"A", ".", ".", "B">>
RefADotDotBC == <<"A", ".", ".", "B", ".", "C">>
RefTwo == <<"2">>
RefThreeOne == <<"3", ".", "1">>
RefTwoNine == <<"2", ".", "9">>
RefTwoTen == <<"2", ".", "1", "0">>
RefTwoOneA == <<"2", ".", "1", "a">>
RefTwoDashOne == <<"2", "-", "1">>

\* The style guides the sorter is explored on: a merged collection draws all its
\* references from one family.
FormsFamily == {RefForms, RefFormsLower, RefFormsButtons, RefFormsInputs}
BaseFamily == {RefBase, RefBaseColors, RefBaseTypography}
LetterFamily == {RefAB, RefAC, RefDB}
CaseFamily == {RefFormsA, RefFormsLowerB}
EmptyChunkFamily == {RefADotDotB, RefADotDotBC}
NumericFamily ==
  {RefTwo, RefThreeOne, RefTwoNine, RefTwoTen, RefTwoOneA, RefTwoDashOne, RefForms}
Families ==
  {FormsFamily, BaseFamily, NumericFamily, LetterFamily, CaseFamily, EmptyChunkFamily}
Weights == {0, 1}
\* The style guides the weight lookup is explored on: nested references, one of
\* them two levels below "Base", and references that differ in letter case only.
WeightFamily == BaseFamily \cup {RefBaseColorsRed}
WeightFamilies == {WeightFamily, CaseFamily}

\* What the structured-comment parser reports for one section: reference, weight.
Parsed(reference, weight) == [reference |-> reference, weight |-> weight]

\* What kss.parse hands to its callback for one block: err, or the sections of
\* styleguide.section() (none, one, or more than one).
BlockOutcomes ==
  {[err |-> TRUE, parsed |-> <<>>],
   [err |-> FALSE, parsed |-> <<>>],
   [err |-> FALSE, parsed |-> <<Parsed(RefThreeOne, 0)>>],
   [err |-> FALSE, parsed |-> <<Parsed(RefForms, 0), Parsed(RefTwo, 0)>>]}

SeqsUpTo(S, n) == UNION {[1..k -> S] : k \in 0..n}

\* A file: empty contents, contents on which kssSplitter.getBlocks throws, or
\* contents that split into blocks.
FileInputs(maxBlocks) ==
  {[kind |-> "empty", blocks |-> <<>>], [kind |-> "throws", blocks |-> <<>>]}
    \cup {[kind |-> "blocks", blocks |-> bs] : bs \in SeqsUpTo(BlockOutcomes, maxBlocks)}

\* The files arguments of exactly n files that hold at most maxBlocks blocks.
RECURSIVE FilesArguments(_, _)
FilesArguments(n, maxBlocks) ==
  IF n = 0 THEN {<<>>}
  ELSE UNION {{<<file>> \o rest : rest \in FilesArguments(n - 1, maxBlocks - Len(file.blocks))} :
                file \in FileInputs(maxBlocks)}

\* ------------------------------------------------------------------ state
VARIABLES
  files,         \* the files argument, in Object.keys order
  blockPromise,  \* blockPromise[f][b]: state of processBlock's promise
  blocksAll,     \* blocksAll[f]: state of Q.all(blockPromises).then(...) in processFile
  filePromise,   \* filePromise[f]: the promise processFile returned
  mainPromise,   \* the promise parseKssSections returned
  heap,          \* the section objects of the merged collection and of its clones
  sections,      \* the array `sections` of parseKssSections (object identities)
  kns,           \* the KssNodeSorter
  outOfOrder     \* history: some block was fulfilled while an earlier one was pending
vars ==
  <<files, blockPromise, blocksAll, filePromise, mainPromise, heap, sections, kns, outOfOrder>>

Pending == [state |-> "pending", value |-> <<>>, error |-> NoError]
Fulfilled(value) == [state |-> "fulfilled", value |-> value, error |-> NoError]
Rejected(error) == [state |-> "rejected", value |-> <<>>, error |-> error]

NoSorter ==
  [state |-> "none", sections |-> <<>>, weightMap |-> {}, error |-> NoError, paths |-> <<>>]

\* ------------------------------------------------------------------ KssNodeSorter
\* new KssNodeSorter(array) on heap h
NewSorter(h, array) ==
  LET clone == CloneDeep(h, array)
  IN  [heap |-> clone.heap,
       kns  |-> [state |-> "new", sections |-> clone.array,
                 weightMap |-> initWeightMap(clone.heap, clone.array),
                 error |-> NoError, paths |-> <<>>]]

\* sorter.sort(): this.sections.sort(likeKssNode), then the numbering pass. A
\* throw leaves the sorter's array sorted and the earlier sections rewritten.
SortSorter(h, sorter) ==
  LET sorted == ArraySort(h, sorter.weightMap, sorter.sections)
      done == convertKssReferenceString2Number(h, sorted)
  IN  [heap |-> done.heap,
       kns  |-> [sorter EXCEPT !.state = IF done.error = NoError THEN "sorted" ELSE "threw",
                               !.sections = sorted,
                               !.error = done.error,
                               !.paths = done.paths]]

\* try { ...; resolve(sortedSections); } catch (err) { reject(err); }
SettleMain(sorter) ==
  IF sorter.state = "threw" THEN Rejected(sorter.error) ELSE Fulfilled(sorter.sections)

\* ------------------------------------------------------------------ SorterSpec
\* The try block of parseKssSections, statement by statement, on any merged
\* collection of up to MaxSections sections drawn from one family.
InitSorter ==
  \E family \in Families :
    \E input \in SeqsUpTo(family \X Weights, MaxSections) :
      /\ Len(input) >= 1
      /\ heap = [i \in DOMAIN input |-> Section(<<1, i, 1>>, input[i][1], input[i][2], 1)]
      /\ sections = [i \in DOMAIN input |-> i]
      /\ kns = NoSorter
      /\ mainPromise = Pending
      /\ files = <<>>
      /\ blockPromise = <<>>
      /\ blocksAll = <<>>
      /\ filePromise = <<>>
      /\ outOfOrder = FALSE

\* var kns = new KssNodeSorter(sections);
Construct ==
  /\ kns.state = "none"
  /\ mainPromise.state = "pending"
  /\ LET made == NewSorter(heap, sections)
     IN  heap' = made.heap /\ kns' = made.kns
  /\ UNCHANGED <<files, blockPromise, blocksAll, filePromise, mainPromise, sections,
                 outOfOrder>>

\* kns.sort();
Sort ==
  /\ kns.state = "new"
  /\ LET ran == SortSorter(heap, kns)
     IN  heap' = ran.heap /\ kns' = ran.kns
  /\ UNCHANGED <<files, blockPromise, blocksAll, filePromise, mainPromise, sections,
                 outOfOrder>>

\* resolve(kns.sections), or reject(err) in the catch clause
Settle ==
  /\ kns.state \in {"sorted", "threw"}
  /\ mainPromise.state = "pending"
  /\ mainPromise' = SettleMain(kns)
  /\ UNCHANGED <<files, blockPromise, blocksAll, filePromise, heap, sections, kns,
                 outOfOrder>>

NextSorter == Construct \/ Sort \/ Settle
SorterSpec == InitSorter /\ [][NextSorter]_vars

\* The same try block on the merged collections drawn from the weight families.
InitWeights ==
  \E family \in WeightFamilies :
    \E input \in SeqsUpTo(family \X Weights, MaxSections) :
      /\ Len(input) >= 1
      /\ heap = [i \in DOMAIN input |-> Section(<<1, i, 1>>, input[i][1], input[i][2], 1)]
      /\ sections = [i \in DOMAIN input |-> i]
      /\ kns = NoSorter
      /\ mainPromise = Pending
      /\ files = <<>>
      /\ blockPromise = <<>>
      /\ blocksAll = <<>>
      /\ filePromise = <<>>
      /\ outOfOrder = FALSE
WeightSpec == InitWeights /\ [][NextSorter]_vars

\* ------------------------------------------------------------------ pipeline
RECURSIVE Flatten(_)
Flatten(seqs) == IF seqs = <<>> THEN <<>> ELSE Head(seqs) \o Flatten(Tail(seqs))

\* Variant: Q.allSettled, fulfilled once no promise is pending.
QAllSettledState(states) ==
  IF \A i \in DOMAIN states : states[i] # "pending" THEN "fulfilled" ELSE "pending"
\* Variant: a join that does not wait for the promises still pending.
QAllEagerState(states) ==
  IF \E i \in DOMAIN states : states[i] = "rejected" THEN "rejected" ELSE "fulfilled"
\* Q.all(promises): rejected as soon as one promise is, fulfilled once all are.
QAllState(states) ==
  IF \E i \in DOMAIN states : states[i] = "rejected" THEN "rejected"
  ELSE IF \A i \in DOMAIN states : states[i] = "fulfilled" THEN "fulfilled"
  ELSE "pending"

\* A place of the results array of Q.all, before and after its promise is fulfilled.
EmptySlot == [filled |-> FALSE, value |-> <<>>]
\* Variant: the fulfilment values kept in the order of their arrival.
QAllPush(results, index, value) ==
  LET free == CHOOSE i \in DOMAIN results :
                ~results[i].filled /\ \A j \in DOMAIN results : ~results[j].filled => i <= j
  IN  [results EXCEPT ![free] = [filled |-> TRUE, value |-> value]]
\* Q.all keeps each fulfilment value at the index of its promise.
QAllStore(results, index, value) ==
  [results EXCEPT ![index] = [filled |-> TRUE, value |-> value]]

\* The value processBlock resolves with: jsonSections(styleguide.section()), that
\* is every section the parser produced for the block.
BlockSections(f, b, outcome) ==
  [k \in DOMAIN outcome.parsed |->
     Section(<<f, b, k>>, outcome.parsed[k].reference, outcome.parsed[k].weight, 0)]

\* The reduce in processFile: the non-empty block results concatenated in the
\* order of the results array, every section tagged with its file.
FileSections(f, results) ==
  LET tagged(blockResult) == [k \in DOMAIN blockResult |-> [blockResult[k] EXCEPT !.file = f]]
  IN  Flatten([b \in DOMAIN results |->
                 IF Len(results[b].value) > 0 THEN tagged(results[b].value) ELSE <<>>])

\* results.map in parseKssSections: sections = sections.concat(fileSections)
MergeFiles(promises) ==
  Flatten([f \in DOMAIN promises |->
             IF Len(promises[f].value) > 0 THEN promises[f].value ELSE <<>>])

States(promises) == [i \in DOMAIN promises |-> promises[i].state]

\* The state once parseKssSections(files, options) has returned: every file has
\* been handed to processFile, every block to processBlock and to kss.parse.
Init ==
  /\ files \in UNION {FilesArguments(n, MaxBlocks) : n \in 0..MaxFiles}
  /\ blockPromise = [f \in DOMAIN files |-> [b \in DOMAIN files[f].blocks |-> Pending]]
  /\ blocksAll = [f \in DOMAIN files |->
                    [state |-> IF files[f].kind = "empty" THEN "unused" ELSE "pending",
                     results |-> [b \in DOMAIN files[f].blocks |-> EmptySlot]]]
  /\ filePromise = [f \in DOMAIN files |->
                      CASE files[f].kind = "empty" -> Fulfilled(<<>>)
                        [] files[f].kind = "throws" -> Rejected(SplitterError(f))
                        [] OTHER -> Pending]
  /\ mainPromise = Pending
  /\ heap = <<>>
  /\ sections = <<>>
  /\ kns = NoSorter
  /\ outOfOrder = FALSE

\* Block c of file g comes before block b of file f in the merge order.
Before(g, c, f, b) == g < f \/ (g = f /\ c < b)

\* kss.parse calls back for block b of file f: processBlock rejects with err or
\* resolves with the sections, and Q.all(blockPromises) records a fulfilment.
BlockSettle(f, b) ==
  /\ blockPromise[f][b].state = "pending"
  /\ LET outcome == files[f].blocks[b]
     IN  IF outcome.err
         THEN /\ blockPromise' = [blockPromise EXCEPT ![f][b] = Rejected(ParseError(f, b))]
              /\ UNCHANGED blocksAll
         ELSE /\ blockPromise' =
                   [blockPromise EXCEPT ![f][b] = Fulfilled(BlockSections(f, b, outcome))]
              /\ blocksAll' = [blocksAll EXCEPT ![f].results =
                                 QAllStore(@, b, BlockSections(f, b, outcome))]
  /\ outOfOrder' =
       (outOfOrder \/ (~files[f].blocks[b].err
                         /\ \E g \in DOMAIN files : \E c \in DOMAIN files[g].blocks :
                              Before(g, c, f, b) /\ blockPromise[g][c].state = "pending"))
  /\ UNCHANGED <<files, filePromise, mainPromise, heap, sections, kns>>

\* Q.all(blockPromises) is fulfilled and its then-callback runs: resolve(reduce).
\* resolve on a promise the catch clause already rejected changes nothing.
FileJoin(f) ==
  /\ blocksAll[f].state = "pending"
  /\ QAllState(States(blockPromise[f])) = "fulfilled"
  /\ blocksAll' = [blocksAll EXCEPT ![f].state = "fulfilled"]
  /\ filePromise' =
       IF filePromise[f].state = "pending"
       THEN [filePromise EXCEPT ![f] = Fulfilled(FileSections(f, blocksAll[f].results))]
       ELSE filePromise
  /\ UNCHANGED <<files, blockPromise, mainPromise, heap, sections, kns, outOfOrder>>

\* Q.all(blockPromises) is rejected: the promise .then(...) returned is rejected
\* too, and nothing listens to it; the file's promise is not touched.
FileJoinRejected(f) ==
  /\ blocksAll[f].state = "pending"
  /\ QAllState(States(blockPromise[f])) = "rejected"
  /\ blocksAll' = [blocksAll EXCEPT ![f].state = "rejected"]
  /\ UNCHANGED <<files, blockPromise, filePromise, mainPromise, heap, sections, kns,
                 outOfOrder>>

\* Q.all(filePromises) is fulfilled and its then-callback runs: merge, sort,
\* resolve or reject.
MainJoin ==
  /\ mainPromise.state = "pending"
  /\ QAllState(States(filePromise)) = "fulfilled"
  /\ LET merged == MergeFiles(filePromise)
         array == [i \in DOMAIN merged |-> i]
         made == NewSorter(merged, array)
         ran == SortSorter(made.heap, made.kns)
     IN  /\ sections' = array
         /\ heap' = ran.heap
         /\ kns' = ran.kns
         /\ mainPromise' = SettleMain(ran.kns)
  /\ UNCHANGED <<files, blockPromise, blocksAll, filePromise, outOfOrder>>

\* Q.all(filePromises) is rejected: .catch(reject) rejects the main promise with
\* the reason of the first file promise that was rejected.
MainJoinRejected ==
  /\ mainPromise.state = "pending"
  /\ QAllState(States(filePromise)) = "rejected"
  /\ LET first == CHOOSE f \in DOMAIN filePromise :
                    /\ filePromise[f].state = "rejected"
                    /\ \A g \in DOMAIN filePromise : filePromise[g].state = "rejected" => f <= g
     IN  mainPromise' = Rejected(filePromise[first].error)
  /\ UNCHANGED <<files, blockPromise, blocksAll, filePromise, heap, sections, kns,
                 outOfOrder>>

Next ==
  \/ \E f \in DOMAIN files : \E b \in DOMAIN files[f].blocks : BlockSettle(f, b)
  \/ \E f \in DOMAIN files : FileJoin(f)
  \/ \E f \in DOMAIN files : FileJoinRejected(f)
  \/ MainJoin
  \/ MainJoinRejected

Spec == Init /\ [][Next]_vars

\* ------------------------------------------------------------------ properties
\* Vocabulary of the properties below.
Resolved == mainPromise.state = "fulfilled"
Settled == mainPromise.state # "pending"
SortRan == kns.state \in {"sorted", "threw"}
\* The sections of the collection parseKssSections resolved with.
Output == [i \in DOMAIN mainPromise.value |-> heap[mainPromise.value[i]]]
\* The sections of the merged collection, as the caller's array holds them.
Merged == [i \in DOMAIN sections |-> heap[sections[i]]]
\* The sorter's own sections, in the sorter's order.
Sorted == [i \in DOMAIN kns.sections |-> heap[kns.sections[i]]]
OriginalOf(header) == Merged[CHOOSE i \in DOMAIN Merged : Merged[i].header = header]
PositionOf(header) == CHOOSE i \in DOMAIN Sorted : Sorted[i].header = header
\* No callback is left to run: the guard of every action of Next is false.
Terminated ==
  /\ \A f \in DOMAIN blockPromise : \A b \in DOMAIN blockPromise[f] :
       blockPromise[f][b].state # "pending"
  /\ \A f \in DOMAIN blocksAll :
       blocksAll[f].state = "pending" => QAllState(States(blockPromise[f])) = "pending"
  /\ mainPromise.state = "pending" => QAllState(States(filePromise)) = "pending"
\* The headers of every section the parser produced, by file, block and rank.
ParsedHeaders ==
  Flatten([f \in DOMAIN files |->
             Flatten([b \in DOMAIN files[f].blocks |->
                        [k \in DOMAIN files[f].blocks[b].parsed |-> <<f, b, k>>]])])
\* Lower-cased chunks of a reference and the first depth (from 1) at which two
\* chunk paths both have a chunk and the chunks differ; 0 if there is none.
Chunks(reference) == SplitChunks(toLowerCase(reference))
FirstDivergence(ca, cb) ==
  LET differ == {d \in 1..Min(Len(ca), Len(cb)) : ca[d] # cb[d]}
  IN  IF differ = {} THEN 0 ELSE CHOOSE d \in differ : \A e \in differ : d <= e
\* The weight registered for a reference truncated to its first d chunks.
RegisteredWeight(reference, d) ==
  Lookup(kns.weightMap, JoinDot(SubSeq(Chunks(reference), 1, d)))

\* C1: whenever parseKssSections resolves, the references of the sections of the
\* returned collection are pairwise distinct.
C1_DistinctReferences ==
  Resolved =>
    \A i, j \in DOMAIN Output : i # j => Output[i].reference # Output[j].reference

\* The merged collection is "Forms - Buttons", "Forms", "Forms - Inputs" in some
\* order, all of weight 0.
FormsScenario ==
  /\ Len(Merged) = 3
  /\ {Merged[i].reference : i \in DOMAIN Merged} = {RefForms, RefFormsButtons, RefFormsInputs}
  /\ \A i \in DOMAIN Merged : Merged[i].weight = 0

\* C2: the collection "Forms - Buttons", "Forms", "Forms - Inputs" (weights 0,
\* any merge order) resolves, in the order Forms, Forms - Buttons, Forms - Inputs,
\* to the references 1, 1.1 and 1.2, and no error is raised.
C2_ParentNumbersChildren ==
  (FormsScenario /\ Settled) =>
    /\ Resolved
    /\ [i \in DOMAIN Output |-> Output[i].stringReference] =
         <<<<RefForms>>, <<RefFormsButtons>>, <<RefFormsInputs>>>>
    /\ [i \in DOMAIN Output |-> Output[i].reference] =
         <<<<"1">>, <<"1", ".", "1">>, <<"1", ".", "2">>>>

\* kss.parse reported an error for some block.
SomeBlockFailed ==
  \E f \in DOMAIN blockPromise : \E b \in DOMAIN blockPromise[f] :
    blockPromise[f][b].state = "rejected"

\* C3: if the structured-comment parser fails on a block, the promise returned by
\* parseKssSections is rejected by the time no callback is left to run: it does
\* not stay pending for ever.
C3_ParseFailureRejects ==
  (SomeBlockFailed /\ Terminated) => mainPromise.state = "rejected"

\* C4: parseKssSections resolves with a collection only if no block failed
\* parsing, no file failed, and the resolver raised no collision; the collection
\* then holds every section the parser produced, each of them numbered.
C4_NoPartialCollection ==
  Resolved =>
    /\ \A f \in DOMAIN files : \A b \in DOMAIN files[f].blocks :
         ~files[f].blocks[b].err /\ blockPromise[f][b].state = "fulfilled"
    /\ \A f \in DOMAIN files : files[f].kind # "throws"
    /\ kns.error = NoError
    /\ Len(mainPromise.value) = Len(ParsedHeaders)
    /\ Len(kns.paths) = Len(ParsedHeaders)
C4_Witness ==
  /\ Terminated
  /\ ~Resolved
  /\ SomeBlockFailed
  /\ \E f \in DOMAIN blockPromise : \E b \in DOMAIN blockPromise[f] :
       blockPromise[f][b].state = "fulfilled" /\ Len(blockPromise[f][b].value) > 0

\* C5: if the merged collection holds two distinct sections with the identical
\* reference text, resolution aborts with a reference-collision error and the
\* pipeline rejects with it.
C5_IdenticalReferencesCollide ==
  (Settled /\ \E i, j \in DOMAIN Merged :
                i # j /\ Merged[i].reference = Merged[j].reference) =>
    mainPromise.state = "rejected" /\ mainPromise.error.kind = "collision"

OnlyDigitsDotsDashes(text) ==
  \A i \in DOMAIN text : text[i] \in Range(DigitChars) \cup {".", "-"}

\* C6: in a resolved output, a section whose original reference text consists
\* only of digits, dots and dashes keeps its reference and has no stringReference;
\* any other section has stringReference equal to the original text and reference
\* equal to the dot-joined auto-increment path of its step.
C6_NumericPassThrough ==
  Resolved =>
    \A i \in DOMAIN Output :
      LET original == OriginalOf(Output[i].header).reference
      IN  IF OnlyDigitsDotsDashes(original)
          THEN Output[i].reference = original /\ Output[i].stringReference = <<>>
          ELSE /\ Output[i].stringReference = <<original>>
               /\ Output[i].reference = JoinNumbers(kns.paths[i])
C6_Witness ==
  /\ Resolved
  /\ \E i \in DOMAIN Output : Output[i].stringReference = <<>>
  /\ \E i \in DOMAIN Output :
       Output[i].stringReference # <<>> /\ Output[i].reference # Output[i].stringReference[1]

\* C7: constructing a KssNodeSorter and calling sort() leave the caller's array
\* and every section object in it unchanged, whether sort() returns or throws.
C7_CallerCollectionUntouched ==
  [][/\ sections' = sections
     /\ \A i \in DOMAIN sections : heap'[sections[i]] = heap[sections[i]]]_vars
C7_Witness ==
  /\ kns.state = "sorted"
  /\ \E i \in DOMAIN Sorted : Sorted[i].stringReference # <<>>
  /\ [i \in DOMAIN Sorted |-> Sorted[i].header] # [i \in DOMAIN Merged |-> Merged[i].header]

\* C8: the merged collection handed to the resolver lists the sections in file
\* order and, within a file, in block order, whatever the order in which the
\* block and file tasks completed.
C8_MergeOrder ==
  kns.state # "none" =>
    /\ [i \in DOMAIN Merged |-> Merged[i].header] = ParsedHeaders
    /\ \A i \in DOMAIN Merged : Merged[i].file = Merged[i].header[1]
C8_Witness ==
  /\ kns.state # "none"
  /\ outOfOrder
  /\ \E i, j \in DOMAIN Merged : Merged[i].header[2] # Merged[j].header[2]
  /\ \E i, j \in DOMAIN Merged : Merged[i].header[1] # Merged[j].header[1]

C10_NumericChunksByValue ==
  SortRan =>
    \A i, j \in DOMAIN Merged :
      LET a == Merged[i]
          b == Merged[j]
          ca == Chunks(a.reference)
          cb == Chunks(b.reference)
          d == FirstDivergence(ca, cb)
      IN  (/\ d > 0
           /\ RegisteredWeight(a.reference, d) = RegisteredWeight(b.reference, d)
           /\ AllDigits(ca[d]) /\ AllDigits(cb[d])
           /\ ToNumber(ca[d]) < ToNumber(cb[d]))
            => PositionOf(a.header) < PositionOf(b.header)

\* The chunk path of a reference as written: " - " and "." delimit the chunks.
ChunkPath(reference) == SplitDot(ReplaceDashes(reference))
IsPrefix(p, q) == Len(p) <= Len(q) /\ SubSeq(q, 1, Len(p)) = p
Parent(path) == SubSeq(path, 1, Len(path) - 1)
\* The chunk path, as merged, of the section at position i of the sorted order.
SortedPath(i) == ChunkPath(OriginalOf(Sorted[i].header).reference)
\* The merged collection is "A.B", "A.C", "D.B" in some order, all of weight 0.
LetterScenario ==
  /\ Len(Merged) = 3
  /\ {Merged[i].reference : i \in DOMAIN Merged} = {RefAB, RefAC, RefDB}
  /\ \A i \in DOMAIN Merged : Merged[i].weight = 0

\* C11: the counters are independent per branch. In a resolved output a section
\* that directly follows a sibling (same parent chunks, same depth) keeps the
\* sibling's parent counters and takes the next last counter, and a section
\* whose parent chunks are not shared with its predecessor has 1 as its last
\* counter; "A.B", "A.C", "D.B" (weights 0, any merge order) resolve to 1.1, 1.2,
\* 2.1.
C11_PerBranchCounters ==
  /\ (LetterScenario /\ Settled) =>
       /\ Resolved
       /\ [i \in DOMAIN Output |-> Output[i].stringReference] =
            <<<<RefAB>>, <<RefAC>>, <<RefDB>>>>
       /\ [i \in DOMAIN Output |-> Output[i].reference] =
            <<<<"1", ".", "1">>, <<"1", ".", "2">>, <<"2", ".", "1">>>>
  /\ Resolved =>
       \A i \in DOMAIN Output :
         LET path == kns.paths[i]
             depth == Len(SortedPath(i))
         IN  IF i > 1 /\ Len(SortedPath(i - 1)) = depth
                      /\ Parent(SortedPath(i - 1)) = Parent(SortedPath(i))
             THEN /\ Parent(path) = Parent(kns.paths[i - 1])
                  /\ path[Len(path)] = kns.paths[i - 1][Len(kns.paths[i - 1])] + 1
             ELSE (i = 1 \/ ~IsPrefix(Parent(SortedPath(i)), SortedPath(i - 1)))
                    => path[Len(path)] = 1
C11_Witness ==
  /\ Resolved
  /\ LetterScenario
  /\ Merged[1].reference = RefDB
  /\ Merged[2].reference = RefAC

\* C12: every raw block contributes at most one section to the merged collection:
\* no two sections handed to the resolver come from the same block of a file.
C12_OneSectionPerBlock ==
  kns.state # "none" =>
    \A i, j \in DOMAIN Merged :
      i # j => <<Merged[i].header[1], Merged[i].header[2]>>
                 # <<Merged[j].header[1], Merged[j].header[2]>>

\* A dot-delimited chain of positive integers.
IsPositiveChain(text) ==
  LET parts == SplitDot(text)
  IN  \A k \in DOMAIN parts : AllDigits(parts[k]) /\ ToNumber(parts[k]) >= 1

\* C13: in a resolved output every section's reference is a dot-delimited chain
\* of positive integers, whether it was rewritten or passed through.
C13_PositiveIntegerChains ==
  Resolved => \A i \in DOMAIN Output : IsPositiveChain(Output[i].reference)

\* No two sections of the merged collection have the same normalized reference.
DistinctNormalizedReferences ==
  \A i, j \in DOMAIN Merged :
    i # j => NormalizedReference(Merged[i].reference) # NormalizedReference(Merged[j].reference)
\* The headers, in sorted order, of the merged collection taken in the order perm.
SortedHeadersOf(perm) ==
  LET array == ArraySort(heap, kns.weightMap, [i \in DOMAIN sections |-> sections[perm[i]]])
  IN  [i \in DOMAIN array |-> heap[array[i]].header]

\* C14: the sorted order depends only on the set of sections: when the normalized
\* references are pairwise distinct, sorting any permutation of the merged
\* collection gives the order the sorter produced.
C14_OrderIndependentOfMergeOrder ==
  (SortRan /\ DistinctNormalizedReferences) =>
    \A perm \in Permutations(DOMAIN sections) :
      SortedHeadersOf(perm) = [i \in DOMAIN Sorted |-> Sorted[i].header]

\* C15: the resolution phase (sorter construction, sort, numbering) has started
\* only if every block task of every file has completed successfully: no block
\* promise is pending or rejected, and no file failed to split.
C15_JoinBarrier ==
  kns.state # "none" =>
    /\ \A f \in DOMAIN blockPromise : \A b \in DOMAIN blockPromise[f] :
         blockPromise[f][b].state = "fulfilled"
    /\ \A f \in DOMAIN files : files[f].kind # "throws"
C15_Witness ==
  /\ SortRan
  /\ Len(files) = 2
  /\ \A f \in DOMAIN files : Len(files[f].blocks) >= 1
  /\ outOfOrder

\* The reference truncated to its first d chunks, dot-joined, and the weights
\* declared by the sections whose own normalized reference is that key.
TruncatedKey(reference, d) == JoinDot(SubSeq(Chunks(reference), 1, d))
OwnWeights(key) ==
  {Merged[i].weight : i \in {k \in DOMAIN Merged : NormalizedReference(Merged[k].reference) = key}}
DeclaredWeights(key) == IF OwnWeights(key) = {} THEN {0} ELSE OwnWeights(key)
\* Chunk x sorts before chunk y when no weight decides.
ChunkBefore(x, y) ==
  IF AllDigits(x) /\ AllDigits(y) THEN ToNumber(x) < ToNumber(y) ELSE StrGreater(y, x)

\* C16: at a divergence at depth d the comparator uses, for each side, the weight
\* declared by a section whose own normalized reference is the compared reference
\* truncated to d chunks, and 0 when there is no such section; so when one side's
\* truncated key has no section of its own and the other side's weight is 0, the
\* diverging chunks alone decide the order, whatever weight deeper sections declare.
C16_WeightOfExactTruncatedKey ==
  /\ kns.state # "none" =>
       \A i, j \in DOMAIN Merged :
         LET d == FirstDivergence(Chunks(Merged[i].reference), Chunks(Merged[j].reference))
         IN  d > 0 => getWeight(kns.weightMap, Merged[i].reference, d - 1)
                        \in DeclaredWeights(TruncatedKey(Merged[i].reference, d))
  /\ SortRan =>
       \A i, j \in DOMAIN Merged :
         LET a == Merged[i]
             b == Merged[j]
             d == FirstDivergence(Chunks(a.reference), Chunks(b.reference))
         IN  (/\ d > 0
              /\ OwnWeights(TruncatedKey(a.reference, d)) = {}
              /\ DeclaredWeights(TruncatedKey(b.reference, d)) = {0})
               => /\ ChunkBefore(Chunks(a.reference)[d], Chunks(b.reference)[d])
                       => PositionOf(a.header) < PositionOf(b.header)
                  /\ ChunkBefore(Chunks(b.reference)[d], Chunks(a.reference)[d])
                       => PositionOf(b.header) < PositionOf(a.header)
C16_Witness ==
  /\ SortRan
  /\ \A i \in DOMAIN Merged : Merged[i].reference # RefBaseColors
  /\ \E i, j \in DOMAIN Merged :
       /\ Merged[i].reference = RefBaseColorsRed /\ Merged[i].weight = 1
       /\ Merged[j].reference = RefBaseTypography /\ Merged[j].weight = 0
       /\ j < i
       /\ PositionOf(Merged[i].header) < PositionOf(Merged[j].header)

\* C17: once sorted, a section whose (lower-cased) chunk path is a strict prefix
\* of another section's chunk path comes before that section, whatever the
\* weights of the two sections.
C17_PrefixSortsFirst ==
  SortRan =>
    \A i, j \in DOMAIN Merged :
      LET ca == Chunks(Merged[i].reference)
          cb == Chunks(Merged[j].reference)
      IN  (IsPrefix(ca, cb) /\ Len(ca) < Len(cb))
            => PositionOf(Merged[i].header) < PositionOf(Merged[j].header)

\* The lower-cased chunks, as merged, of the section at position i of the sorted order.
SortedChunks(i) == Chunks(OriginalOf(Sorted[i].header).reference)

\* C18: the numbering pass finds the divergence depth on case-insensitive chunks:
\* in a resolved output a section that directly follows a section of the same
\* depth whose parent chunks differ from its own at most in letter case ("Forms -
\* A", "forms - B") is numbered under the same parent counters, with the next
\* last counter.
C18_CaseInsensitiveNumbering ==
  Resolved =>
    \A i \in DOMAIN Output :
      (/\ i > 1
       /\ Len(SortedChunks(i - 1)) = Len(SortedChunks(i))
       /\ Parent(SortedChunks(i - 1)) = Parent(SortedChunks(i)))
        => /\ Parent(kns.paths[i]) = Parent(kns.paths[i - 1])
           /\ kns.paths[i][Len(kns.paths[i])] = kns.paths[i - 1][Len(kns.paths[i - 1])] + 1

\* No reference of the merged collection has an empty chunk.
NonEmptyChunks ==
  \A i \in DOMAIN Merged :
    \A k \in DOMAIN ChunkPath(Merged[i].reference) : ChunkPath(Merged[i].reference)[k] # <<>>
\* The positions, in sorted order, of the sections whose chunk path repeats or
\* extends the chunk path of the section immediately before.
Collisions == {i \in 2..Len(Sorted) : IsPrefix(SortedPath(i - 1), SortedPath(i))}

\* C19: for a collection without empty chunks, sort() raises the collision error
\* exactly when, in sorted order, some section's chunk path (as written) equals or
\* extends the chunk path of the section immediately before it; the error names
\* the first such pair, the sections before it have been processed, and when
\* there is no such pair every section is processed.
C19_CollisionExactlyOnPrefix ==
  (SortRan /\ NonEmptyChunks) =>
    IF Collisions = {}
    THEN kns.state = "sorted" /\ Len(kns.paths) = Len(Sorted)
    ELSE LET first == CHOOSE i \in Collisions : \A j \in Collisions : i <= j
         IN  /\ kns.state = "threw"
             /\ kns.error.kind = "collision"
             /\ kns.error.headers = <<Sorted[first - 1].header, Sorted[first].header>>
             /\ Len(kns.paths) = first - 1
C19_Witness ==
  /\ kns.state = "threw"
  /\ NonEmptyChunks
  /\ Len(Sorted) = 3
  /\ Len(kns.paths) = 2
  /\ SortedPath(2) # SortedPath(3)
  /\ kns.error.headers = <<Sorted[2].header, Sorted[3].header>>

\* C20: after each section the numbering pass processes without error, the
\* auto-increment path has as many counters as the section's reference has
\* chunks and every counter is at least 1; a rewritten reference has the depth
\* of the original reference.
C20_AccumulatorInvariant ==
  SortRan =>
    \A i \in DOMAIN kns.paths :
      /\ Len(kns.paths[i]) = Len(SortedPath(i))
      /\ \A k \in DOMAIN kns.paths[i] : kns.paths[i][k] >= 1
      /\ Sorted[i].stringReference # <<>>
           => Len(SplitDot(Sorted[i].reference)) = Len(SortedPath(i))

====
